---- MODULE Spec2Model ----
(***************************************************************************)
(* Model of the KServe model deployer step                                 *)
(* (src/src/zenml/integrations/kserve/steps/kserve_deployer.py).           *)
(*                                                                         *)
(* Each process is one execution of kserve_model_deployer_step.  The step  *)
(* is not atomic: the lookup of existing services (find_model_server), the *)
(* preparation of the model files (prepare_service_config) and the backend *)
(* calls (service.start, deploy_model) are separate steps that interleave  *)
(* with other executions and with the serving backend's own transitions.   *)
(*                                                                         *)
(* A path is the sequence of its "/"-separated segments; a trailing "/"    *)
(* is a last segment "".                                                   *)
(***************************************************************************)
EXTENDS Naturals, Sequences, FiniteSets, TLC

VARIABLES
  registry,           \* identity -> services the model deployer holds, newest first
  fs,                 \* the paths that exist in the artifact store
  runs,               \* number of step executions started so far
  pc,                 \* per process: position inside the step
  request,            \* per process: the step's inputs
  existing_services,  \* per process: the list returned by find_model_server
  service_config,     \* per process: the result of prepare_service_config
  result,             \* per process: what the step returned or raised
  calls,              \* per process: backend calls made by this execution
  ops,                \* per process: storage operations made by this execution
  stack,              \* the stack handed to Stack.validate
  validation,         \* what Stack.validate answered
  filesystems,        \* DEFAULT_FILESYSTEM_REGISTRY: the filesystems registered
  construction,       \* the last construction of an artifact store
  fscall              \* the last call of a method of a registered filesystem

vars == <<registry, fs, runs, pc, request, existing_services, service_config,
          result, calls, ops, stack, validation, filesystems, construction,
          fscall>>

-----------------------------------------------------------------------------
(* Bounds *)

MaxRuns == 2

\* the most services the model deployer holds for one identity when other
\* clients deploy without replacing
MaxCandidates == 2

\* two pipeline runs that may execute the step at the same time
Procs == {"run_a", "run_b"}

-----------------------------------------------------------------------------
(* Values *)

\* the default of config.timeout, in seconds
DEFAULT_KSERVE_DEPLOYMENT_START_STOP_TIMEOUT == 300

Identities ==
  { [pipeline_name |-> "p1", pipeline_step_name |-> "s1", model_name |-> "m1"],
    [pipeline_name |-> "p1", pipeline_step_name |-> "s1", model_name |-> "m2"] }

NoIdentity == [pipeline_name |-> "", pipeline_step_name |-> "", model_name |-> ""]

\* config.service_config.predictor: the two kinds the step treats specially, a
\* server implementation that needs no staging, and a name no server has
Predictors == {"tensorflow", "sklearn", "pytorch", "no-such-server"}

\* model.uri values: a flat directory, a deeper directory written with a
\* trailing slash, and a location that does not exist.
ModelUris == { <<"store", "m1">>, <<"store", "deep", "m2", "">>, <<"gone">> }

InitialFiles ==
  { <<"store">>,
    <<"store", "m1">>, <<"store", "m1", "model">>, <<"store", "m1", "saved_model.pb">>,
    <<"store", "deep">>,
    <<"store", "deep", "m2">>, <<"store", "deep", "m2", "saved_model.pb">> }

NoConfig ==
  [identity |-> NoIdentity, pipeline_run_id |-> 0, predictor |-> "",
   model_uri |-> <<>>]

NoService == [uuid |-> 0, config |-> NoConfig, state |-> "Absent"]

\* a call made without a timeout
NoTimeout == 0

\* what a call gives its caller: a value it returns or an exception it raises
Returns(value) == [kind |-> "return", value |-> value]
Raises(exception) == [kind |-> "raise", value |-> exception]

\* no artifact store has been constructed
NoConstruction ==
  [cls |-> "", path |-> <<>>, outcome |-> Returns("")]

\* no method of a registered filesystem has been called
NoCall == [filesystem |-> 0, method |-> "", raw |-> Returns(""), outcome |-> Returns("")]

\* a stack without a container registry
NoContainerRegistry == [uri |-> <<>>, authentication_secret |-> ""]

\* no stack is being validated
NoStack ==
  [container_registry |-> NoContainerRegistry, metadata_store |-> "",
   artifact_store |-> ""]

NoRequest ==
  [identity |-> NoIdentity, pipeline_run_id |-> 0, model_uri |-> <<>>,
   predictor |-> "", deploy_decision |-> FALSE, timeout |-> 0]

NoResult == [status |-> "none", service |-> NoService]

-----------------------------------------------------------------------------
(* Paths and the storage collaborator *)

\* os.path.join(a, b) for a relative single segment b
Join(a, b) ==
  IF a = <<>> \/ a = <<"">> THEN <<b>>
  ELSE IF a[Len(a)] = "" THEN SubSeq(a, 1, Len(a) - 1) \o <<b>>
  ELSE Append(a, b)

\* the file or directory a path names: a trailing slash names the same directory
Norm(p) == IF Len(p) > 0 /\ p[Len(p)] = "" THEN SubSeq(p, 1, Len(p) - 1) ELSE p

IsPrefix(a, b) == Len(a) <= Len(b) /\ SubSeq(b, 1, Len(a)) = a

Prefixes(p) == { SubSeq(p, 1, n) : n \in 1..Len(p) }

\* fileio.exists
exists(files, p) == Norm(p) \in files

\* fileio.makedirs: the directory and its missing parents
makedirs(files, p) == files \cup Prefixes(Norm(p))

\* the entries below a directory, relative to it
Below(files, dir) ==
  { SubSeq(q, Len(Norm(dir)) + 1, Len(q)) :
      q \in { f \in files : IsPrefix(Norm(dir), f) /\ Len(f) > Len(Norm(dir)) } }

-----------------------------------------------------------------------------
(* prepare_service_config *)

Op(name, src, dst, ok) == [op |-> name, src |-> src, dst |-> dst, ok |-> ok]

\* context.get_output_artifact_uri(): a fresh location for every step run
get_output_artifact_uri(run) == <<"out", ToString(run)>>

\* served_model_uri = os.path.join(context.get_output_artifact_uri(), "kserve")
ServedRoot(out) == Join(out, "kserve")

\* os.path.join(served_model_uri, "1")
TensorflowDestinationWrong(served_model_uri, model_uri) ==
  Join(served_model_uri, Norm(model_uri)[Len(Norm(model_uri))])
TensorflowDestination(served_model_uri, model_uri) == Join(served_model_uri, "1")

\* model_uri = os.path.join(model.uri, "model")
SklearnSource(uri) == Join(uri, "model")

\* the path tested by "if not fileio.exists(model.uri)"
SklearnCheckedPath(uri) == uri

\* os.path.join(served_model_uri, "model.joblib")
SklearnDestination(served_model_uri) == Join(served_model_uri, "model.joblib")

\* served_model_uri = model_uri
DefaultServedUriWrong(served_model_uri, model_uri) == served_model_uri
DefaultServedUri(served_model_uri, model_uri) == model_uri

Staged(files, log, status, uri) ==
  [files |-> files, ops |-> log, status |-> status, served_model_uri |-> uri]

\* io_utils.copy_dir(src, dst): every entry below src is copied below dst.
\* A missing source is reported as NotFoundError; an I/O fault may leave any
\* part of the tree copied.
copy_dir(files, log, src, dst, uri) ==
  IF ~exists(files, src)
  THEN { Staged(files, Append(log, Op("copy_dir", src, dst, FALSE)), "NotFoundError", uri) }
  ELSE { Staged(makedirs(files, dst) \cup { Norm(dst) \o r : r \in Below(files, src) },
                Append(log, Op("copy_dir", src, dst, TRUE)), "ok", uri) }
       \cup
       { Staged(IF S = {} THEN files
                ELSE makedirs(files, dst) \cup { Norm(dst) \o r : r \in S },
                Append(log, Op("copy_dir", src, dst, FALSE)), "StagingIOError", uri) :
           S \in (SUBSET Below(files, src)) \ {Below(files, src)} }

\* fileio.copy(src, dst): a missing source raises FileNotFoundError, which the
\* registered filesystem reports as NotFoundError
copy(files, log, src, dst, uri) ==
  IF ~exists(files, src)
  THEN { Staged(files, Append(log, Op("copy", src, dst, FALSE)), "NotFoundError", uri) }
  ELSE { Staged(files \cup {Norm(dst)}, Append(log, Op("copy", src, dst, TRUE)), "ok", uri),
         Staged(files, Append(log, Op("copy", src, dst, FALSE)), "StagingIOError", uri) }

\* the body of prepare_service_config after fileio.makedirs succeeded
PreparePredictor(files, log, predictor, uri, served_model_uri) ==
  IF predictor = "tensorflow"
  THEN copy_dir(files, log, uri, TensorflowDestination(served_model_uri, uri),
                served_model_uri)
  ELSE IF predictor = "sklearn"
  THEN IF ~exists(files, SklearnCheckedPath(uri))
       THEN { Staged(files,
                     Append(log, Op("exists", SklearnCheckedPath(uri), <<>>, FALSE)),
                     "ArtifactMissing", served_model_uri) }
       ELSE copy(files, Append(log, Op("exists", SklearnCheckedPath(uri), <<>>, TRUE)),
                 SklearnSource(uri), SklearnDestination(served_model_uri),
                 served_model_uri)
  ELSE { Staged(files, log, "ok", DefaultServedUri(served_model_uri, uri)) }

\* prepare_service_config(model.uri): the set of its possible outcomes
prepare_service_config(files, req) ==
  LET served_model_uri == ServedRoot(get_output_artifact_uri(req.pipeline_run_id))
  IN  { Staged(files, <<Op("makedirs", <<>>, served_model_uri, FALSE)>>,
               "StagingIOError", served_model_uri) }
      \cup
      PreparePredictor(makedirs(files, served_model_uri),
                       <<Op("makedirs", <<>>, served_model_uri, TRUE)>>,
                       req.predictor, req.model_uri, served_model_uri)

\* service_config = config.service_config.copy(); service_config.model_uri = ...
MakeConfig(req, served_model_uri) ==
  [identity |-> req.identity, pipeline_run_id |-> req.pipeline_run_id,
   predictor |-> req.predictor, model_uri |-> served_model_uri]

-----------------------------------------------------------------------------
(* The model deployer: service registry and serving backend *)

Call(name, uuid, config, replace, timeout) ==
  [op |-> name, uuid |-> uuid, config |-> config, replace |-> replace,
   timeout |-> timeout]

\* model_deployer.find_model_server(pipeline_name, pipeline_step_name, model_name)
find_model_server(reg, identity) == reg[identity]

\* position of a service in its identity's list, 0 when the backend no longer holds it
IndexOf(list, uuid) ==
  IF \E k \in 1..Len(list) : list[k].uuid = uuid
  THEN CHOOSE k \in 1..Len(list) : list[k].uuid = uuid
  ELSE 0

\* the backend's current record of a service handle
Current(reg, service) ==
  LET list == reg[service.config.identity]
      k == IndexOf(list, service.uuid)
  IN  IF k = 0 THEN [service EXCEPT !.state = "Absent"] ELSE list[k]

\* service.is_running
is_running(reg, service) == Current(reg, service).state = "Running"

\* A service reaches Running.
BecomeRunning(list, k) == [list EXCEPT ![k].state = "Running"]

\* what service.start(timeout) can report for a service in a given state
StartOutcomes(state) ==
  IF state \in {"Stopped", "Starting"}
  THEN {"ok", "StartTimeout", "BackendUnavailable"}
  ELSE IF state = "Failed" THEN {"StartTimeout", "BackendUnavailable"}
  ELSE IF state = "Running" THEN {"ok"}
  ELSE {"BackendUnavailable"}

\* service.start(timeout): the registry after the call
start(reg, service, outcome) ==
  LET id == service.config.identity
      list == reg[id]
      k == IndexOf(list, service.uuid)
  IN  IF k = 0 \/ outcome = "BackendUnavailable" THEN reg
      ELSE IF outcome = "ok" THEN [reg EXCEPT ![id] = BecomeRunning(list, k)]
      ELSE IF list[k].state = "Stopped"
           THEN [reg EXCEPT ![id][k].state = "Starting"]
           ELSE reg

DeployOutcomes == {"ok", "StartTimeout", "BackendUnavailable"}

\* How a call that waits for Running ends for its caller.  The backend waits
\* no longer than the timeout it is given and then reports StartTimeout; a
\* call made without a timeout keeps waiting for as long as the service is
\* not Running.
Waited(outcome, timeout) ==
  IF outcome = "StartTimeout" /\ timeout = NoTimeout THEN "blocked" ELSE outcome

NewService(config, state) ==
  [uuid |-> config.pipeline_run_id, config |-> config, state |-> state]

\* model_deployer.deploy_model(config, replace, timeout): the registry after
\* the call.  A deploy the backend accepts creates a new instance; with replace
\* the new instance takes the identity's slot and the services it supersedes
\* are not retained, without replace it is added to them.  An accepted
\* deploy that does not reach Running in time leaves the new instance Starting.
deploy_model(reg, config, replace, outcome) ==
  LET id == config.identity
      new == NewService(config, IF outcome = "ok" THEN "Running" ELSE "Starting")
  IN  IF outcome = "BackendUnavailable" THEN reg
      ELSE IF replace THEN [reg EXCEPT ![id] = <<new>>]
      ELSE [reg EXCEPT ![id] = <<new>> \o @]

-----------------------------------------------------------------------------
(* kserve_model_deployer_step *)

\* "if not deploy_decision and existing_services"
TakesReuseNegationDropped(deploy_decision, existing) ==
  deploy_decision /\ existing # <<>>
TakesReuse(deploy_decision, existing) == ~deploy_decision /\ existing # <<>>

\* "if not service.is_running"
StartNeededInverted(reg, service) == is_running(reg, service)
StartNeeded(reg, service) == ~is_running(reg, service)

\* the replace argument of deploy_model: "replace=True"
DeployReplaceArgIsDecision(deploy_decision, existing) == deploy_decision
DeployReplaceArgIsReplace(deploy_decision, existing) == existing # <<>>
DeployReplaceArgFalse(deploy_decision, existing) == FALSE
DeployReplaceArg(deploy_decision, existing) == TRUE

\* The identity the services are looked up for: pipeline_name, step_name and
\* config.service_config.model_name are all passed to find_model_server.
LookupIdentityIgnoresModelName(req) ==
  CHOOSE id \in DOMAIN registry :
    /\ id.pipeline_name = req.identity.pipeline_name
    /\ id.pipeline_step_name = req.identity.pipeline_step_name
    /\ \A other \in DOMAIN registry :
         (/\ other.pipeline_name = id.pipeline_name
          /\ other.pipeline_step_name = id.pipeline_step_name)
           => Len(registry[other]) <= Len(registry[id])
LookupIdentity(req) == req.identity

\* "service = cast(KServeDeploymentService, existing_services[0])"
ReusedServiceLast(existing) == existing[Len(existing)]
ReusedService(existing) == existing[1]

\* "service.start(timeout=config.timeout)"
StartTimeoutArgNone(req) == NoTimeout
StartTimeoutArg(req) == req.timeout

\* "deploy_model(service_config, replace=True, timeout=config.timeout)"
DeployTimeoutArg(req) == req.timeout

\* What the reuse branch hands back after service.start: an exception of
\* start leaves the step, otherwise "return service".
ReuseResultSwallowsError(outcome, service) == [status |-> "ok", service |-> service]
ReuseResult(outcome, service) ==
  IF outcome = "ok"
  THEN [status |-> "ok", service |-> service]
  ELSE [status |-> outcome, service |-> NoService]

\* Where the step is after prepare_service_config has come back: an exception
\* of it leaves the step, otherwise deploy_model is next.
AfterPrepareIgnoresError(status) == "staged"
AfterPrepare(status) == IF status = "ok" THEN "staged" ELSE "done"

\* What the deploy branch hands back after deploy_model: an exception of
\* deploy_model leaves the step, otherwise "return service".
DeployResultSwallowsError(outcome, service) == [status |-> "ok", service |-> service]
DeployResult(outcome, service) ==
  IF outcome = "ok"
  THEN [status |-> "ok", service |-> service]
  ELSE [status |-> outcome, service |-> NoService]

\* Where the step is after service.start has come back: it has ended, with
\* the service or with the exception.
AfterStartRetries(outcome) == IF outcome = "ok" THEN "done" ELSE "found"
AfterStart(outcome) == "done"

Init ==
  /\ registry = [id \in Identities |-> <<>>]
  /\ fs = InitialFiles
  /\ runs = 0
  /\ pc = [p \in Procs |-> "idle"]
  /\ request = [p \in Procs |-> NoRequest]
  /\ existing_services = [p \in Procs |-> <<>>]
  /\ service_config = [p \in Procs |-> NoConfig]
  /\ result = [p \in Procs |-> NoResult]
  /\ calls = [p \in Procs |-> <<>>]
  /\ ops = [p \in Procs |-> <<>>]
  /\ stack = NoStack
  /\ validation = "none"
  /\ filesystems = <<>>
  /\ construction = NoConstruction
  /\ fscall = NoCall

\* The step is entered and looks up the existing services of its identity.
\* A pipeline run takes the first free process.  ids and kinds are the
\* identities and the (predictor, model.uri) pairs the pipeline runs use.
Invoke(p, ids, kinds) ==
  /\ pc[p] = "idle"
  /\ p = "run_b" => pc["run_a"] # "idle"
  /\ runs < MaxRuns
  /\ \E id \in ids, d \in BOOLEAN, k \in kinds :
       /\ request' = [request EXCEPT ![p] =
            [identity |-> id, pipeline_run_id |-> runs + 1,
             model_uri |-> k.model_uri, predictor |-> k.predictor,
             deploy_decision |-> d,
             timeout |-> DEFAULT_KSERVE_DEPLOYMENT_START_STOP_TIMEOUT]]
       /\ existing_services' =
            [existing_services EXCEPT ![p] =
               find_model_server(registry, LookupIdentity(request'[p]))]
  /\ runs' = runs + 1
  /\ pc' = [pc EXCEPT ![p] = "found"]
  /\ service_config' = [service_config EXCEPT ![p] = NoConfig]
  /\ result' = [result EXCEPT ![p] = NoResult]
  /\ calls' = [calls EXCEPT ![p] = <<>>]
  /\ ops' = [ops EXCEPT ![p] = <<>>]
  /\ UNCHANGED <<registry, fs>>
  /\ UNCHANGED <<stack, validation, filesystems, construction, fscall>>

\* The negative decision with an existing service: the first one is returned
\* as it is when it is running.
ReuseRunning(p) ==
  /\ pc[p] = "found"
  /\ TakesReuse(request[p].deploy_decision, existing_services[p])
  /\ ~StartNeeded(registry, ReusedService(existing_services[p]))
  /\ result' = [result EXCEPT ![p] =
       [status |-> "ok",
        service |-> Current(registry, ReusedService(existing_services[p]))]]
  /\ pc' = [pc EXCEPT ![p] = "done"]
  /\ UNCHANGED <<registry, fs, runs, request, existing_services, service_config,
                 calls, ops>>
  /\ UNCHANGED <<stack, validation, filesystems, construction, fscall>>

\* The negative decision with an existing service that is not running: it is
\* started, and returned when the start succeeds.
ReuseStart(p) ==
  /\ pc[p] = "found"
  /\ TakesReuse(request[p].deploy_decision, existing_services[p])
  /\ StartNeeded(registry, ReusedService(existing_services[p]))
  /\ LET service == ReusedService(existing_services[p])
         timeout == StartTimeoutArg(request[p])
     IN  \E outcome \in StartOutcomes(Current(registry, service).state) :
           /\ registry' = start(registry, service, outcome)
           /\ calls' = [calls EXCEPT ![p] =
                Append(@, Call("start", service.uuid, service.config, FALSE,
                               timeout))]
           /\ IF Waited(outcome, timeout) = "blocked"
              THEN /\ pc' = [pc EXCEPT ![p] = "blocked"]
                   /\ UNCHANGED result
              ELSE /\ pc' = [pc EXCEPT ![p] = AfterStart(outcome)]
                   /\ result' = [result EXCEPT ![p] =
                        ReuseResult(outcome, Current(registry', service))]
  /\ UNCHANGED <<fs, runs, request, existing_services, service_config, ops>>
  /\ UNCHANGED <<stack, validation, filesystems, construction, fscall>>

\* service_config = prepare_service_config(model.uri)
Prepare(p) ==
  /\ pc[p] = "found"
  /\ ~TakesReuse(request[p].deploy_decision, existing_services[p])
  /\ \E o \in prepare_service_config(fs, request[p]) :
       /\ fs' = o.files
       /\ ops' = [ops EXCEPT ![p] = o.ops]
       /\ pc' = [pc EXCEPT ![p] = AfterPrepare(o.status)]
       /\ IF AfterPrepare(o.status) = "staged"
          THEN /\ service_config' = [service_config EXCEPT ![p] =
                    MakeConfig(request[p], o.served_model_uri)]
               /\ UNCHANGED result
          ELSE /\ result' = [result EXCEPT ![p] =
                    [status |-> o.status, service |-> NoService]]
               /\ UNCHANGED service_config
  /\ UNCHANGED <<registry, runs, request, existing_services, calls>>
  /\ UNCHANGED <<stack, validation, filesystems, construction, fscall>>

\* model_deployer.deploy_model(service_config, replace=True, timeout=config.timeout)
Deploy(p) ==
  /\ pc[p] = "staged"
  /\ LET replace == DeployReplaceArg(request[p].deploy_decision, existing_services[p])
         timeout == DeployTimeoutArg(request[p])
     IN  \E outcome \in DeployOutcomes :
           /\ registry' = deploy_model(registry, service_config[p], replace, outcome)
           /\ calls' = [calls EXCEPT ![p] =
                Append(@, Call("deploy", service_config[p].pipeline_run_id,
                               service_config[p], replace, timeout))]
           /\ IF Waited(outcome, timeout) = "blocked"
              THEN /\ pc' = [pc EXCEPT ![p] = "blocked"]
                   /\ UNCHANGED result
              ELSE /\ pc' = [pc EXCEPT ![p] = "done"]
                   /\ result' = [result EXCEPT ![p] =
                        DeployResult(outcome,
                          Current(registry', NewService(service_config[p], "Running")))]
  /\ UNCHANGED <<fs, runs, request, existing_services, service_config, ops>>
  /\ UNCHANGED <<stack, validation, filesystems, construction, fscall>>

\* The step has returned; the process is free for the next pipeline run.  The
\* output location of the finished run is never used by a later run and is
\* no longer tracked.
Return(p) ==
  /\ pc[p] = "done"
  /\ pc' = [pc EXCEPT ![p] = "idle"]
  /\ request' = [request EXCEPT ![p] = NoRequest]
  /\ existing_services' = [existing_services EXCEPT ![p] = <<>>]
  /\ service_config' = [service_config EXCEPT ![p] = NoConfig]
  /\ result' = [result EXCEPT ![p] = NoResult]
  /\ calls' = [calls EXCEPT ![p] = <<>>]
  /\ ops' = [ops EXCEPT ![p] = <<>>]
  /\ fs' = { f \in fs :
              ~IsPrefix(get_output_artifact_uri(request[p].pipeline_run_id), f) }
  /\ UNCHANGED <<registry, runs>>
  /\ UNCHANGED <<stack, validation, filesystems, construction, fscall>>

\* Running -> Stopped, manual or backend-initiated
Stop(id, k) ==
  /\ k \in 1..Len(registry[id])
  /\ registry[id][k].state = "Running"
  /\ registry' = [registry EXCEPT ![id][k].state = "Stopped"]
  /\ UNCHANGED <<fs, runs, pc, request, existing_services, service_config, result,
                 calls, ops>>
  /\ UNCHANGED <<stack, validation, filesystems, construction, fscall>>

\* Starting -> Running after the caller's timeout has passed
SettleRunning(id, k) ==
  /\ k \in 1..Len(registry[id])
  /\ registry[id][k].state = "Starting"
  /\ registry' = [registry EXCEPT ![id] = BecomeRunning(@, k)]
  /\ UNCHANGED <<fs, runs, pc, request, existing_services, service_config, result,
                 calls, ops>>
  /\ UNCHANGED <<stack, validation, filesystems, construction, fscall>>

\* Starting -> Failed
SettleFailed(id, k) ==
  /\ k \in 1..Len(registry[id])
  /\ registry[id][k].state = "Starting"
  /\ registry' = [registry EXCEPT ![id][k].state = "Failed"]
  /\ UNCHANGED <<fs, runs, pc, request, existing_services, service_config, result,
                 calls, ops>>
  /\ UNCHANGED <<stack, validation, filesystems, construction, fscall>>

\* Concurrent pipeline runs for two identities; the artifacts are a sklearn
\* model that is in place and a model served from where it is stored.
LifecycleKinds ==
  { [predictor |-> "sklearn", model_uri |-> <<"store", "m1">>],
    [predictor |-> "pytorch", model_uri |-> <<"store", "deep", "m2", "">>] }

Next ==
  \/ \E p \in Procs : Invoke(p, Identities, LifecycleKinds)
  \/ \E p \in Procs : ReuseRunning(p)
  \/ \E p \in Procs : ReuseStart(p)
  \/ \E p \in Procs : Prepare(p)
  \/ \E p \in Procs : Deploy(p)
  \/ \E p \in Procs : Return(p)
  \/ \E id \in Identities, k \in 1..MaxRuns : Stop(id, k)
  \/ \E id \in Identities, k \in 1..MaxRuns : SettleRunning(id, k)
  \/ \E id \in Identities, k \in 1..MaxRuns : SettleFailed(id, k)

Spec == Init /\ [][Next]_vars

\* One pipeline run at a time for one identity, with every predictor kind and
\* every artifact location.
AllKinds == [predictor : Predictors, model_uri : ModelUris]

LocateIdentity ==
  [pipeline_name |-> "p1", pipeline_step_name |-> "s1", model_name |-> "m1"]

NextLocate ==
  \/ Invoke("run_a", {LocateIdentity}, AllKinds)
  \/ ReuseRunning("run_a")
  \/ ReuseStart("run_a")
  \/ Prepare("run_a")
  \/ Deploy("run_a")
  \/ Return("run_a")
  \/ \E k \in 1..MaxRuns : Stop(LocateIdentity, k)
  \/ \E k \in 1..MaxRuns : SettleRunning(LocateIdentity, k)
  \/ \E k \in 1..MaxRuns : SettleFailed(LocateIdentity, k)

SpecLocate == Init /\ [][NextLocate]_vars

\* The steps of one execution.  An execution that has been entered keeps
\* running: the interpreter goes on to its next statement, and a backend call
\* comes back as Waited describes.
Step(p) == ReuseRunning(p) \/ ReuseStart(p) \/ Prepare(p) \/ Deploy(p)

SpecLocateFair == SpecLocate /\ WF_vars(Step("run_a"))

\* Another client of the model deployer deploys a model for the identity
\* without replacing what is there: the identity has one more service, the
\* newest first.
ForeignConfig(id, uuid) ==
  [identity |-> id, pipeline_run_id |-> uuid, predictor |-> "pytorch",
   model_uri |-> <<"store", "deep", "m2", "">>]

ForeignDeploy(id) ==
  /\ Len(registry[id]) < MaxCandidates
  /\ \E outcome \in {"ok", "StartTimeout"} :
       registry' = deploy_model(registry,
                     ForeignConfig(id, MaxRuns + 1 + Len(registry[id])),
                     FALSE, outcome)
  /\ UNCHANGED <<fs, runs, pc, request, existing_services, service_config, result,
                 calls, ops>>
  /\ UNCHANGED <<stack, validation, filesystems, construction, fscall>>

\* One pipeline run at a time for an identity that other clients deploy to as
\* well, so that a lookup can return several services.
NextSplit ==
  \/ Invoke("run_a", {LocateIdentity}, LifecycleKinds)
  \/ ReuseRunning("run_a")
  \/ ReuseStart("run_a")
  \/ Prepare("run_a")
  \/ Deploy("run_a")
  \/ Return("run_a")
  \/ \E k \in 1..MaxCandidates : Stop(LocateIdentity, k)
  \/ \E k \in 1..MaxCandidates : SettleRunning(LocateIdentity, k)
  \/ \E k \in 1..MaxCandidates : SettleFailed(LocateIdentity, k)
  \/ ForeignDeploy(LocateIdentity)

SpecSplit == Init /\ [][NextSplit]_vars

\* Concurrent pipeline runs for identities that differ from one another in
\* the pipeline name, in the step name or in the model name.
FrameIdentities ==
  { [pipeline_name |-> "p1", pipeline_step_name |-> "s1", model_name |-> "m1"],
    [pipeline_name |-> "p1", pipeline_step_name |-> "s1", model_name |-> "m2"],
    [pipeline_name |-> "p1", pipeline_step_name |-> "s2", model_name |-> "m1"],
    [pipeline_name |-> "p2", pipeline_step_name |-> "s1", model_name |-> "m1"] }

FrameKinds ==
  { [predictor |-> "pytorch", model_uri |-> <<"store", "deep", "m2", "">>] }

InitFrame ==
  /\ registry = [id \in FrameIdentities |-> <<>>]
  /\ fs = InitialFiles
  /\ runs = 0
  /\ pc = [p \in Procs |-> "idle"]
  /\ request = [p \in Procs |-> NoRequest]
  /\ existing_services = [p \in Procs |-> <<>>]
  /\ service_config = [p \in Procs |-> NoConfig]
  /\ result = [p \in Procs |-> NoResult]
  /\ calls = [p \in Procs |-> <<>>]
  /\ ops = [p \in Procs |-> <<>>]
  /\ stack = NoStack
  /\ validation = "none"
  /\ filesystems = <<>>
  /\ construction = NoConstruction
  /\ fscall = NoCall

NextFrame ==
  \/ \E p \in Procs : Invoke(p, FrameIdentities, FrameKinds)
  \/ \E p \in Procs : ReuseRunning(p)
  \/ \E p \in Procs : ReuseStart(p)
  \/ \E p \in Procs : Prepare(p)
  \/ \E p \in Procs : Deploy(p)
  \/ \E p \in Procs : Return(p)
  \/ \E id \in FrameIdentities, k \in 1..MaxRuns : Stop(id, k)
  \/ \E id \in FrameIdentities, k \in 1..MaxRuns : SettleRunning(id, k)
  \/ \E id \in FrameIdentities, k \in 1..MaxRuns : SettleFailed(id, k)

SpecFrame == InitFrame /\ [][NextFrame]_vars

-----------------------------------------------------------------------------
(* Stack validation with the GitHub Actions orchestrator                   *)
(* (tests/unit/integrations/github/orchestrators/                          *)
(*  test_github_actions_orchestrator.py)                                   *)

\* container registry URIs, as <<host, port>>
RegistryUris ==
  { <<"localhost", "5000">>, <<"localhost", "8080">>,
    <<"gcr.io/my-project", "">>, <<"eu.gcr.io/my-project", "">>,
    <<"docker.io/org", "">>, <<"ghcr.io/org", "">> }

ContainerRegistries ==
  {NoContainerRegistry}
    \cup [uri : RegistryUris, authentication_secret : {"", "some_secret"}]

\* SQLiteMetadataStore, MySQLMetadataStore
MetadataStores == {"sqlite", "mysql"}

\* LocalArtifactStore, GCPArtifactStore
ArtifactStores == {"local", "gcp"}

Stacks ==
  [container_registry : ContainerRegistries, metadata_store : MetadataStores,
   artifact_store : ArtifactStores]

\* container_registry.is_local
is_local(container_registry) == container_registry.uri[1] = "localhost"

\* container_registry.requires_authentication
requires_authenticationNever(container_registry) == FALSE
requires_authentication(container_registry) ==
  container_registry.authentication_secret # ""

\* a component that keeps its data on the machine that runs the client
HasLocalComponent(s) ==
  s.metadata_store = "sqlite" \/ s.artifact_store = "local"

\* Stack.validate() of a stack whose orchestrator is GitHubActionsOrchestrator
validate(s) ==
  IF s.container_registry = NoContainerRegistry THEN "StackValidationError"
  ELSE IF is_local(s.container_registry) THEN "StackValidationError"
  ELSE IF requires_authentication(s.container_registry) THEN "StackValidationError"
  ELSE IF HasLocalComponent(s) THEN "StackValidationError"
  ELSE "valid"

InitValidate ==
  /\ registry = [id \in Identities |-> <<>>]
  /\ fs = InitialFiles
  /\ runs = 0
  /\ pc = [p \in Procs |-> "idle"]
  /\ request = [p \in Procs |-> NoRequest]
  /\ existing_services = [p \in Procs |-> <<>>]
  /\ service_config = [p \in Procs |-> NoConfig]
  /\ result = [p \in Procs |-> NoResult]
  /\ calls = [p \in Procs |-> <<>>]
  /\ ops = [p \in Procs |-> <<>>]
  /\ stack \in Stacks
  /\ validation = "pending"
  /\ filesystems = <<>>
  /\ construction = NoConstruction
  /\ fscall = NoCall

Validate ==
  /\ validation = "pending"
  /\ validation' = validate(stack)
  /\ UNCHANGED <<registry, fs, runs, pc, request, existing_services, service_config,
                 result, calls, ops, stack, filesystems, construction, fscall>>

NextValidate == Validate

SpecValidate == InitValidate /\ [][NextValidate]_vars

-----------------------------------------------------------------------------
(* Artifact stores and the filesystems they register                       *)
(* (src/src/zenml/artifact_stores/base_artifact_store.py)                  *)
(* A scheme and a store path are sequences of characters.                  *)

\* the most artifact stores constructed
MaxStores == 2

S3Scheme == <<"s", "3", ":", "/", "/">>
GsScheme == <<"g", "s", ":", "/", "/">>

\* Subclasses of BaseArtifactStore, by class name: whether the class has the
\* attribute SUPPORTED_SCHEMES, and its value.  The scheme of a local store
\* is the empty string.
StoreClasses ==
  [ S3ArtifactStore    |-> [has_schemes |-> TRUE,  SUPPORTED_SCHEMES |-> {S3Scheme}],
    GCPArtifactStore   |-> [has_schemes |-> TRUE,  SUPPORTED_SCHEMES |-> {GsScheme}],
    CloudArtifactStore |-> [has_schemes |-> TRUE,  SUPPORTED_SCHEMES |-> {S3Scheme, GsScheme}],
    LocalArtifactStore |-> [has_schemes |-> TRUE,  SUPPORTED_SCHEMES |-> {<<>>}],
    EmptyArtifactStore |-> [has_schemes |-> TRUE,  SUPPORTED_SCHEMES |-> {}],
    BareArtifactStore  |-> [has_schemes |-> FALSE, SUPPORTED_SCHEMES |-> {}] ]

\* values of the path field: "s3://b", "gs://b", "s3:/b", "s3", "/b" and ""
StorePaths ==
  { S3Scheme \o <<"b">>, GsScheme \o <<"b">>, <<"s", "3", ":", "/", "b">>,
    <<"s", "3">>, <<"/", "b">>, <<>> }

\* path.startswith(scheme)
startswith(path, scheme) == IsPrefix(scheme, path)

\* The root validator: the class has SUPPORTED_SCHEMES and the path starts
\* with one of them, or ArtifactStoreInterfaceError is raised.
_ensure_artifact_storeSkipsPath(cls, path) ==
  IF ~StoreClasses[cls].has_schemes THEN Raises("ArtifactStoreInterfaceError")
  ELSE Returns("values")
_ensure_artifact_store(cls, path) ==
  IF ~StoreClasses[cls].has_schemes THEN Raises("ArtifactStoreInterfaceError")
  ELSE IF ~\E i \in StoreClasses[cls].SUPPORTED_SCHEMES : startswith(path, i)
       THEN Raises("ArtifactStoreInterfaceError")
       ELSE Returns("values")

\* the exception classes a storage method raises, each with its base class
BaseOf ==
  [ FileNotFoundError |-> "OSError", PermissionError |-> "OSError",
    OSError |-> "Exception", ValueError |-> "Exception",
    Exception |-> "BaseException", BaseException |-> "BaseException" ]

Exceptions == DOMAIN BaseOf \ {"Exception", "BaseException"}

\* isinstance(exception, cls)
RECURSIVE IsInstance(_, _)
IsInstance(exception, cls) ==
  \/ exception = cls
  \/ BaseOf[exception] # exception /\ IsInstance(BaseOf[exception], cls)

\* _catch_not_found_error(_func): what the decorated function gives its
\* caller when _func has given raw.  "except FileNotFoundError" catches the
\* instances of that class.
_catch_not_found_errorCatchesOSError(raw) ==
  IF raw.kind = "raise" /\ IsInstance(raw.value, "OSError")
  THEN Raises("NotFoundError")
  ELSE raw
_catch_not_found_error(raw) ==
  IF raw.kind = "raise" /\ IsInstance(raw.value, "FileNotFoundError")
  THEN Raises("NotFoundError")
  ELSE raw

\* The attributes of the filesystem class built by _register: for every
\* method of the filesystem, the method of the store behind it and whether it
\* is decorated with _catch_not_found_error.
Method(of, decorated) == [of |-> of, decorated |-> decorated]

FilesystemMethods ==
  [ open     |-> Method("open", TRUE),
    copy     |-> Method("copyfile", TRUE),
    exists   |-> Method("exists", FALSE),
    glob     |-> Method("glob", FALSE),
    isdir    |-> Method("isdir", FALSE),
    listdir  |-> Method("listdir", TRUE),
    makedirs |-> Method("makedirs", FALSE),
    mkdir    |-> Method("mkdir", TRUE),
    remove   |-> Method("remove", TRUE),
    rename   |-> Method("rename", TRUE),
    rmtree   |-> Method("rmtree", TRUE),
    stat     |-> Method("stat", TRUE),
    walk     |-> Method("walk", TRUE) ]

\* "def _register(self, priority: int = 5)"
DEFAULT_PRIORITY == 5

\* the filesystem class of a store and the priority it is registered with
Filesystem(cls, priority) ==
  [name |-> cls, SUPPORTED_SCHEMES |-> StoreClasses[cls].SUPPORTED_SCHEMES,
   methods |-> FilesystemMethods, priority |-> priority]

\* DEFAULT_FILESYSTEM_REGISTRY.register(filesystem_class, priority=priority)
_register(registered, cls, priority) == Append(registered, Filesystem(cls, priority))

\* BaseArtifactStore.__init__: the Pydantic object is initiated, which runs
\* the root validator, and then the filesystem is registered.
Construct(cls, path) ==
  /\ Len(filesystems) < MaxStores
  /\ construction' =
       [cls |-> cls, path |-> path, outcome |-> _ensure_artifact_store(cls, path)]
  /\ filesystems' =
       IF _ensure_artifact_store(cls, path).kind = "return"
       THEN _register(filesystems, cls, DEFAULT_PRIORITY)
       ELSE filesystems
  /\ UNCHANGED <<registry, fs, runs, pc, request, existing_services, service_config,
                 result, calls, ops, stack, validation, fscall>>

\* what a method of a store gives: a value or an exception
RawOutcomes == { Returns(v) : v \in {"r1"} } \cup { Raises(e) : e \in Exceptions }

\* A method of the k-th registered filesystem is called and the method of
\* the store behind it gives raw.  One call is looked at at a time.
CallFilesystem(k, method, raw) ==
  /\ fscall = NoCall
  /\ k \in 1..Len(filesystems)
  /\ fscall' =
       [filesystem |-> k, method |-> method, raw |-> raw,
        outcome |-> IF filesystems[k].methods[method].decorated
                    THEN _catch_not_found_error(raw)
                    ELSE raw]
  /\ UNCHANGED <<registry, fs, runs, pc, request, existing_services, service_config,
                 result, calls, ops, stack, validation, filesystems, construction>>

\* The caller of the method has taken what the call gave.
CompleteCall ==
  /\ fscall # NoCall
  /\ fscall' = NoCall
  /\ UNCHANGED <<registry, fs, runs, pc, request, existing_services, service_config,
                 result, calls, ops, stack, validation, filesystems, construction>>

NextStore ==
  \/ \E cls \in DOMAIN StoreClasses, path \in StorePaths : Construct(cls, path)
  \/ CompleteCall
  \/ \E k \in 1..MaxStores, method \in DOMAIN FilesystemMethods, raw \in RawOutcomes :
       CallFilesystem(k, method, raw)

SpecStore == Init /\ [][NextStore]_vars

-----------------------------------------------------------------------------
(* Properties *)

\* the step of process p that ends its execution on the reuse branch
ReuseStep(p) ==
  /\ pc[p] = "found" /\ pc'[p] = "done"
  /\ ~request[p].deploy_decision /\ existing_services[p] # <<>>

\* the execution of process p is on the branch that deploys
OnDeployBranch(p) ==
  /\ pc[p] \in {"found", "staged", "done"}
  /\ request[p].deploy_decision \/ existing_services[p] = <<>>

DeployCalls(p) == { i \in DOMAIN calls[p] : calls[p][i].op = "deploy" }
StartCalls(p) == { i \in DOMAIN calls[p] : calls[p][i].op = "start" }
CopyOps(p) == { i \in DOMAIN ops[p] : ops[p][i].op \in {"copy", "copy_dir"} }

\* C1: a negative decision whose looked-up service is Running when the step
\* checks it returns that service with every field as the backend holds it,
\* makes no backend call (no deploy, no start), no storage operation, and
\* leaves the registry as it is.
C1_RunningServiceReused ==
  [][\A p \in Procs :
       (ReuseStep(p) /\ Current(registry, existing_services[p][1]).state = "Running")
       => /\ calls'[p] = <<>>
          /\ ops'[p] = <<>>
          /\ registry' = registry
          /\ fs' = fs
          /\ result'[p] = [status |-> "ok",
                           service |-> Current(registry, existing_services[p][1])]]_vars

C1_Witness ==
  \E p \in Procs :
    /\ pc[p] = "done" /\ ~request[p].deploy_decision /\ existing_services[p] # <<>>
    /\ result[p].status = "ok" /\ result[p].service.state = "Running"
    /\ calls[p] = <<>>

\* C2: a negative decision whose looked-up service is Stopped calls start on
\* that service exactly once and never deploy; when the step returns a
\* service it is that service and its state is Running.
C2_StoppedServiceStarted ==
  [][\A p \in Procs :
       (ReuseStep(p) /\ Current(registry, existing_services[p][1]).state = "Stopped")
       => /\ calls'[p] = <<Call("start", existing_services[p][1].uuid,
                                existing_services[p][1].config, FALSE,
                                request[p].timeout)>>
          /\ result'[p].status \in {"ok", "StartTimeout", "BackendUnavailable"}
          /\ result'[p].status = "ok" =>
               /\ result'[p].service.uuid = existing_services[p][1].uuid
               /\ result'[p].service.state = "Running"
               /\ Current(registry', existing_services[p][1]).state = "Running"]_vars

C2_Witness ==
  \E p \in Procs :
    /\ pc[p] = "done" /\ ~request[p].deploy_decision /\ existing_services[p] # <<>>
    /\ existing_services[p][1].state = "Stopped"
    /\ Len(calls[p]) = 1 /\ calls[p][1].op = "start"
    /\ result[p].status = "ok" /\ result[p].service.state = "Running"

\* what an execution did, with the run's own output location and run id
\* taken out, so that two runs can be compared
Rel(path, run) ==
  LET out == get_output_artifact_uri(run)
  IN  IF IsPrefix(out, path)
      THEN <<"<output>">> \o SubSeq(path, Len(out) + 1, Len(path))
      ELSE path

ConfigShape(config, run) ==
  [identity |-> config.identity, predictor |-> config.predictor,
   model_uri |-> Rel(config.model_uri, run)]

Shape(p) ==
  LET run == request[p].pipeline_run_id
  IN  [ops |-> [i \in DOMAIN ops[p] |->
                  [ops[p][i] EXCEPT !.src = Rel(@, run), !.dst = Rel(@, run)]],
       calls |-> [i \in DOMAIN calls[p] |->
                  [op |-> calls[p][i].op, replace |-> calls[p][i].replace,
                   timeout |-> calls[p][i].timeout,
                   config |-> ConfigShape(calls[p][i].config, run)]],
       status |-> result[p].status,
       state |-> result[p].service.state,
       service |-> ConfigShape(result[p].service.config, run)]

\* two finished executions that found no service, given the same inputs but
\* for the deploy decision, and the same answers by storage and backend
SameButDecision(p, q) ==
  /\ pc[p] = "done" /\ pc[q] = "done"
  /\ existing_services[p] = <<>> /\ existing_services[q] = <<>>
  /\ ~request[p].deploy_decision /\ request[q].deploy_decision
  /\ request[p].identity = request[q].identity
  /\ request[p].predictor = request[q].predictor
  /\ request[p].model_uri = request[q].model_uri
  /\ request[p].timeout = request[q].timeout
  /\ Len(ops[p]) = Len(ops[q])
  /\ \A i \in DOMAIN ops[p] : ops[p][i].ok = ops[q][i].ok
  /\ result[p].status = result[q].status

\* C3: with no existing service, a negative decision does exactly what a
\* positive decision does: the same storage operations, the same backend
\* calls with the same arguments, and the same returned service; when it
\* succeeds it made one deploy call and no start call.
C3_NegativeDecisionDeploysNew ==
  \A p \in Procs, q \in Procs :
    SameButDecision(p, q)
    => /\ Shape(p) = Shape(q)
       /\ result[p].status = "ok" =>
            /\ Len(calls[p]) = 1 /\ calls[p][1].op = "deploy"
            /\ result[p].service.state = "Running"
            /\ result[p].service.uuid = request[p].pipeline_run_id

C3_Witness ==
  \E p \in Procs, q \in Procs :
    /\ SameButDecision(p, q)
    /\ result[p].status = "ok"
    /\ Len(calls[p]) = 1 /\ Len(calls[q]) = 1

\* C4: when a positive decision for an identity that had a service returns
\* successfully, a lookup of the identity returns the new service and nothing
\* else.
C4_ReplaceSupersedes ==
  [][\A p \in Procs :
       ( /\ pc[p] = "staged" /\ pc'[p] = "done"
         /\ request[p].deploy_decision /\ existing_services[p] # <<>>
         /\ result'[p].status = "ok" )
       => /\ find_model_server(registry', request[p].identity) = <<result'[p].service>>
          /\ result'[p].service.uuid = request[p].pipeline_run_id
          /\ \A k \in DOMAIN existing_services[p] :
               existing_services[p][k].uuid # result'[p].service.uuid]_vars

C4_Witness ==
  \E p \in Procs :
    /\ pc[p] = "done" /\ request[p].deploy_decision /\ existing_services[p] # <<>>
    /\ result[p].status = "ok"
    /\ registry[request[p].identity] = <<result[p].service>>

\* C5 as claimed: the replace flag of every deploy call says whether the
\* execution found a service to replace.
C5_ReplaceFlagIsReplaceExisting ==
  \A p \in Procs : \A i \in DeployCalls(p) :
    calls[p][i].replace = (existing_services[p] # <<>>)

\* C5 as amended: an execution on the deploy branch whose model files were
\* prepared calls deploy exactly once, with replace = true whether or not it
\* found a service; one whose preparation failed makes no backend call.
C5_ReplaceFlagAlwaysTrue ==
  \A p \in Procs :
    (pc[p] = "done" /\ OnDeployBranch(p))
    => IF service_config[p] # NoConfig
       THEN calls[p] = <<Call("deploy", request[p].pipeline_run_id, service_config[p],
                              TRUE, request[p].timeout)>>
       ELSE calls[p] = <<>>

C5_Witness ==
  \E p \in Procs :
    /\ pc[p] = "done" /\ existing_services[p] = <<>>
    /\ Len(calls[p]) = 1 /\ calls[p][1].op = "deploy" /\ calls[p][1].replace
    /\ result[p].status = "ok"

\* C6: no identity ever has two Running services.
C6_AtMostOneRunning ==
  \A id \in Identities :
    Cardinality({ k \in DOMAIN registry[id] : registry[id][k].state = "Running" }) <= 1

\* a deploy has succeeded for an identity that had a Running service
C6_Witness ==
  \E p \in Procs :
    /\ pc[p] = "done" /\ Len(calls[p]) = 1 /\ calls[p][1].op = "deploy"
    /\ result[p].status = "ok"
    /\ existing_services[p] # <<>> /\ existing_services[p][1].state = "Running"
    /\ \E k \in DOMAIN registry[request[p].identity] :
         registry[request[p].identity][k].state = "Running"

\* an execution is between its registry lookup and the end of its backend call
InScope(p) == pc[p] \in {"found", "staged"}

\* C7 as claimed: executions for one identity are serialized.  No two of them
\* are between lookup and backend call at the same time, and no two that both
\* found the registry empty have both deployed a new service.
C7_SerializedPerIdentity ==
  \A p \in Procs, q \in Procs :
    (p # q /\ request[p].identity = request[q].identity)
    => /\ ~(InScope(p) /\ InScope(q))
       /\ ~( /\ existing_services[p] = <<>> /\ existing_services[q] = <<>>
             /\ DeployCalls(p) # {} /\ DeployCalls(q) # {} )

\* the path "<source>/model" the sklearn server's file is expected at
ExpectedSklearnModel(p) == Norm(request[p].model_uri) \o <<"model">>

\* the file "<served_root>/model.joblib" of the execution
ServedJoblib(p) ==
  <<"out", ToString(request[p].pipeline_run_id), "kserve", "model.joblib">>

\* C8 as claimed: for the sklearn predictor, once the served root has been
\* created, a missing "<source>/model" ends the execution with ArtifactMissing,
\* without a file at "<served_root>/model.joblib" and without a deploy call.
C8_MissingSklearnModelIsArtifactMissing ==
  \A p \in Procs :
    ( /\ pc[p] \in {"staged", "done"} /\ OnDeployBranch(p)
      /\ request[p].predictor = "sklearn"
      /\ ops[p] # <<>> /\ ops[p][1].ok
      /\ ExpectedSklearnModel(p) \notin fs )
    => /\ pc[p] = "done"
       /\ result[p].status = "ArtifactMissing"
       /\ ServedJoblib(p) \notin fs
       /\ calls[p] = <<>>

\* the served root "<output>/kserve" of the execution
ServedRootOf(p) == <<"out", ToString(request[p].pipeline_run_id), "kserve">>

\* the execution has prepared its model files
Prepared(p) == pc[p] \in {"staged", "done"} /\ service_config[p] # NoConfig

\* C9: for the tensorflow predictor the only copy is of the source directory
\* to "<served_root>/1"; once the files are prepared every entry of the source
\* is below "<served_root>/1", the model_uri of the configuration and of the
\* deploy call is the served root, and no file of the source is ever removed.
C9_TensorflowStagesIntoOne ==
  /\ InitialFiles \subseteq fs
  /\ \A p \in Procs :
       (OnDeployBranch(p) /\ request[p].predictor = "tensorflow")
       => /\ \A i \in CopyOps(p) :
               /\ ops[p][i].op = "copy_dir"
               /\ ops[p][i].src = request[p].model_uri
               /\ ops[p][i].dst = ServedRootOf(p) \o <<"1">>
          /\ Prepared(p) =>
               /\ Cardinality(CopyOps(p)) = 1
               /\ \A r \in Below(InitialFiles, request[p].model_uri) :
                    (ServedRootOf(p) \o <<"1">> \o r) \in fs
               /\ service_config[p].model_uri = ServedRootOf(p)
               /\ \A i \in DeployCalls(p) :
                    calls[p][i].config.model_uri = ServedRootOf(p)

C9_Witness ==
  \E p \in Procs :
    /\ pc[p] = "done" /\ request[p].predictor = "tensorflow"
    /\ request[p].model_uri = <<"store", "deep", "m2", "">>
    /\ result[p].status = "ok" /\ DeployCalls(p) # {}
    /\ <<"out", ToString(request[p].pipeline_run_id), "kserve", "1", "saved_model.pb">>
         \in fs

\* C10: for every predictor other than tensorflow and sklearn nothing is
\* copied, nothing but the served root is created, and the model_uri of the
\* configuration and of the deploy call is model.uri as it was given.
C10_DefaultServesOriginalUri ==
  \A p \in Procs :
    (OnDeployBranch(p) /\ request[p].predictor \notin {"tensorflow", "sklearn", ""})
    => /\ CopyOps(p) = {}
       /\ { f \in fs : IsPrefix(get_output_artifact_uri(request[p].pipeline_run_id), f) }
            \subseteq Prefixes(ServedRootOf(p))
       /\ Prepared(p) =>
            /\ service_config[p].model_uri = request[p].model_uri
            /\ \A i \in DeployCalls(p) :
                 calls[p][i].config.model_uri = request[p].model_uri

C10_Witness ==
  \E p \in Procs :
    /\ pc[p] = "done" /\ request[p].predictor = "no-such-server"
    /\ request[p].model_uri = <<"store", "deep", "m2", "">>
    /\ result[p].status = "ok" /\ DeployCalls(p) # {}
    /\ calls[p][1].config.model_uri = <<"store", "deep", "m2", "">>

\* the step has returned a service or raised one of the errors
Ended(p) ==
  /\ pc[p] = "done"
  /\ \/ result[p].status = "ok" /\ result[p].service # NoService
     \/ /\ result[p].status \in {"ArtifactMissing", "NotFoundError", "StagingIOError",
                                 "BackendUnavailable", "StartTimeout"}
        /\ result[p].service = NoService

\* C11: every execution of the step that has been entered ends, with a service
\* or with an error; it never stays inside a backend call (waiting for a
\* service that is not Running), and an execution whose start or deploy left
\* the service short of Running has ended with an error, not with a service.
C11_EveryInvocationTerminates ==
  \A p \in Procs :
    /\ [](pc[p] # "blocked")
    /\ (pc[p] \in {"found", "staged"}) ~> Ended(p)

\* an execution has ended with StartTimeout and the service for its identity
\* is still Starting
C11_Witness ==
  \E p \in Procs :
    /\ Ended(p) /\ result[p].status = "StartTimeout"
    /\ Len(calls[p]) = 1
    /\ \E k \in 1..Len(registry[request[p].identity]) :
         /\ registry[request[p].identity][k].state = "Starting"
         /\ registry[request[p].identity][k].uuid = calls[p][1].uuid

\* C12: an execution with a negative decision leaves every service alone that
\* was Running for its identity when the execution looked the services up
\* and is Running still: none of its steps stops, replaces, removes or
\* changes such a service.
C12_NegativeDecisionKeepsRunningService ==
  [][\A p \in Procs :
       (pc[p] \in {"found", "staged"} /\ pc'[p] # pc[p] /\ ~request[p].deploy_decision)
       => \A k \in 1..Len(existing_services[p]) :
            LET s == existing_services[p][k]
            IN  (s.state = "Running" /\ Current(registry, s) = s)
                => Current(registry', s) = s]_vars

\* an execution with a negative decision has ended and the Running service
\* it looked up is the identity's service as before
C12_Witness ==
  \E p \in Procs :
    /\ pc[p] = "done" /\ ~request[p].deploy_decision
    /\ existing_services[p] # <<>>
    /\ existing_services[p][1].state = "Running"
    /\ registry[request[p].identity] = existing_services[p]

\* the step of process p that ends its execution
EndStep(p) == pc[p] \in {"found", "staged"} /\ pc'[p] = "done"

\* q is the caller's repetition of the request of p, which had failed
RetryOf(q, p) ==
  /\ pc[p] = "done" /\ result[p].status # "ok"
  /\ pc[q] \in {"found", "staged", "done"}
  /\ request[q].pipeline_run_id > request[p].pipeline_run_id
  /\ request[q] = [request[p] EXCEPT !.pipeline_run_id = request[q].pipeline_run_id]

\* C13: repeating a request is safe.  An identity never has more than one
\* service, whatever has failed before; an execution that fails before the
\* backend accepted anything (ArtifactMissing, NotFoundError, StagingIOError,
\* BackendUnavailable) leaves the services as they were; an execution that
\* succeeds, a repetition of a failed one included, leaves exactly the
\* service it returns, Running; and a negative decision on a Running
\* service changes nothing however often it is repeated.
C13_RetryIsSafe ==
  [][\A p \in Procs :
       /\ \A id \in Identities : Len(registry'[id]) <= 1
       /\ EndStep(p) =>
            /\ result'[p].status \in {"ArtifactMissing", "NotFoundError",
                                      "StagingIOError", "BackendUnavailable"}
                 => registry' = registry
            /\ result'[p].status = "ok"
                 => /\ registry'[request[p].identity] = <<result'[p].service>>
                    /\ result'[p].service.state = "Running"
            /\ (calls'[p] = <<>> /\ result'[p].status = "ok")
                 => registry' = registry]_vars

\* a request that had failed with StartTimeout was repeated, the repetition
\* found the service the failed execution left behind and has succeeded
C13_Witness ==
  \E p, q \in Procs :
    /\ RetryOf(q, p) /\ result[p].status = "StartTimeout"
    /\ pc[q] = "done" /\ result[q].status = "ok"
    /\ existing_services[q] # <<>>
    /\ existing_services[q][1].uuid = request[p].pipeline_run_id
    /\ registry[request[q].identity] = <<result[q].service>>

\* C14: a validated stack with the GitHub Actions orchestrator is valid
\* exactly when it has a container registry, the registry is not on
\* localhost and has no authentication secret, and neither the metadata store
\* nor the artifact store is a local one; in every other case the validation
\* has raised StackValidationError.
C14_GitHubStackValidation ==
  validation \notin {"none", "pending"} =>
    LET remote_registry ==
          /\ stack.container_registry.uri # <<>>
          /\ stack.container_registry.uri[1] # "localhost"
          /\ stack.container_registry.authentication_secret = ""
        remote_stores ==
          stack.metadata_store = "mysql" /\ stack.artifact_store = "gcp"
    IN  /\ (remote_registry /\ remote_stores) => validation = "valid"
        /\ ~(remote_registry /\ remote_stores) => validation = "StackValidationError"

\* the stack of remote components has been validated and is valid
C14_Witness ==
  /\ validation = "valid"
  /\ stack = [container_registry |->
                [uri |-> <<"gcr.io/my-project", "">>, authentication_secret |-> ""],
              metadata_store |-> "mysql", artifact_store |-> "gcp"]

\* C15: a Failed service stays Failed, with every field as it was, until a
\* deploy of a new instance takes its place: no step (the start of the reuse
\* branch included) changes it, and whenever its identity has a Running
\* service after a step, the Failed one is gone and the Running one is the
\* new instance that the step's deploy call has created.
C15_FailedIsTerminal ==
  [][\A id \in Identities : \A k \in 1..Len(registry[id]) :
       LET s == registry[id][k]
       IN  s.state = "Failed" =>
             /\ Current(registry', s) \in {s, [s EXCEPT !.state = "Absent"]}
             /\ (\E j \in 1..Len(registry'[id]) : registry'[id][j].state = "Running")
                  => /\ Current(registry', s).state = "Absent"
                     /\ \E p \in Procs :
                          /\ pc[p] = "staged" /\ pc'[p] = "done"
                          /\ calls'[p][Len(calls'[p])].op = "deploy"
                          /\ registry'[id] =
                               <<NewService(service_config[p], "Running")>>
                          /\ service_config[p].pipeline_run_id # s.uuid]_vars

\* the reuse branch has called start on a Failed service, the call has failed
\* and the service is Failed as before
C15_Witness ==
  \E p \in Procs :
    /\ pc[p] = "done" /\ ~request[p].deploy_decision
    /\ existing_services[p] # <<>>
    /\ existing_services[p][1].state = "Failed"
    /\ Len(calls[p]) = 1 /\ calls[p][1].op = "start"
    /\ result[p].status = "StartTimeout"
    /\ registry[request[p].identity] = existing_services[p]

\* the execution of process p is on the reuse branch
OnReuseBranch(p) ==
  /\ pc[p] \in {"found", "staged", "done"}
  /\ ~request[p].deploy_decision /\ existing_services[p] # <<>>

\* C16: an execution on the reuse branch that has called start never goes on
\* to prepare or deploy, and when it has ended it has either returned the
\* service it looked up, Running, or failed with the error of start
\* (StartTimeout or BackendUnavailable) and returned no service.
C16_StartFailureIsReported ==
  \A p \in Procs :
    OnReuseBranch(p) =>
      /\ pc[p] # "staged"
      /\ DeployCalls(p) = {}
      /\ (pc[p] = "done" /\ calls[p] # <<>>) =>
           /\ result[p].status \in {"ok", "StartTimeout", "BackendUnavailable"}
           /\ result[p].status = "ok" =>
                /\ result[p].service.uuid = existing_services[p][1].uuid
                /\ result[p].service.state = "Running"
           /\ result[p].status # "ok" => result[p].service = NoService

\* start was called on a Stopped service and did not bring it to Running in
\* time: the execution has ended with StartTimeout, the service is Starting
C16_Witness ==
  \E p \in Procs :
    /\ OnReuseBranch(p) /\ pc[p] = "done"
    /\ existing_services[p][1].state = "Stopped"
    /\ Len(calls[p]) = 1 /\ calls[p][1].op = "start"
    /\ result[p] = [status |-> "StartTimeout", service |-> NoService]
    /\ Current(registry, existing_services[p][1]).state = "Starting"

\* C17: an execution on the reuse branch performs no storage operation: it
\* has no directory creation, existence check or copy in its log, it has no
\* service configuration prepared, and nothing exists at its output location.
C17_ReuseBranchTouchesNoStorage ==
  \A p \in Procs :
    OnReuseBranch(p) =>
      /\ ops[p] = <<>>
      /\ service_config[p] = NoConfig
      /\ \A f \in fs :
           ~IsPrefix(get_output_artifact_uri(request[p].pipeline_run_id), f)

\* an execution has ended on the reuse branch without a storage operation
\* while another execution has prepared its model files
C17_Witness ==
  \E p, q \in Procs :
    /\ OnReuseBranch(p) /\ pc[p] = "done" /\ ops[p] = <<>>
    /\ result[p].status = "ok"
    /\ OnDeployBranch(q) /\ Prepared(q)

\* C18: an execution makes at most one mutating backend call, whether the
\* call succeeds or fails: on the reuse branch at most one start of the
\* service it looked up and no deploy, on the deploy branch at most one
\* deploy and no start.
C18_AtMostOneBackendCall ==
  \A p \in Procs :
    /\ Len(calls[p]) <= 1
    /\ OnReuseBranch(p) => DeployCalls(p) = {}
    /\ OnDeployBranch(p) => StartCalls(p) = {}
    /\ pc[p] \in {"found", "staged"} => calls[p] = <<>>

\* two executions have ended with an error of their one backend call, one
\* after a start and one after a deploy
C18_Witness ==
  \E p, q \in Procs :
    /\ pc[p] = "done" /\ result[p].status \in {"StartTimeout", "BackendUnavailable"}
    /\ Len(calls[p]) = 1 /\ StartCalls(p) = {1}
    /\ pc[q] = "done" /\ result[q].status \in {"StartTimeout", "BackendUnavailable"}
    /\ Len(calls[q]) = 1 /\ DeployCalls(q) = {1}

\* C19: no execution ends with a service that is short of Running and an
\* outcome that is not an error.  When an execution ends with a service,
\* that service is held for the identity exactly as returned and is Running;
\* when the service its backend call was made for is held and is not
\* Running, the execution has ended with an error and without a service, and
\* the error is StartTimeout when the call was a deploy.  Every service the
\* backend holds is one find_model_server returns.
C19_NoSilentPartialState ==
  [][\A p \in Procs :
       EndStep(p) =>
         LET list == find_model_server(registry', request[p].identity)
             touched == { k \in 1..Len(list) :
                            calls'[p] # <<>> /\ list[k].uuid = calls'[p][1].uuid }
         IN  /\ result'[p].status = "ok" =>
                  /\ \E k \in 1..Len(list) : list[k] = result'[p].service
                  /\ result'[p].service.state = "Running"
             /\ \A k \in touched :
                  list[k].state # "Running" =>
                    /\ result'[p].status \in {"StartTimeout", "BackendUnavailable"}
                    /\ result'[p].service = NoService
                    /\ calls'[p][1].op = "deploy" => result'[p].status = "StartTimeout"]_vars

\* a deploy was accepted and did not reach Running in time: the execution has
\* ended with StartTimeout and the lookup returns the new service, Starting
C19_Witness ==
  \E p \in Procs :
    /\ pc[p] = "done" /\ DeployCalls(p) = {1}
    /\ result[p] = [status |-> "StartTimeout", service |-> NoService]
    /\ find_model_server(registry, request[p].identity)
         = <<NewService(service_config[p], "Starting")>>

\* C20: when the lookup has returned more than one service and the decision
\* is negative, the execution deals with the first of them only: start is
\* called on it, once, exactly when it is not Running, a returned service is
\* that one, and every other service of the identity is held after the step
\* as it was before, none added and none removed.
C20_FirstCandidateOnly ==
  [][\A p \in Procs :
       (ReuseStep(p) /\ Len(existing_services[p]) > 1)
       => LET first == existing_services[p][1]
              list == registry[request[p].identity]
          IN  /\ calls'[p] =
                   IF Current(registry, first).state = "Running" THEN <<>>
                   ELSE <<Call("start", first.uuid, first.config, FALSE,
                               request[p].timeout)>>
              /\ result'[p].status = "ok" => result'[p].service.uuid = first.uuid
              /\ Len(registry'[request[p].identity]) = Len(list)
              /\ \A k \in 1..Len(list) :
                   list[k].uuid # first.uuid
                     => registry'[request[p].identity][k] = list[k]]_vars

\* of two Stopped services the lookup returned, the first has been started
\* and returned and the second is Stopped still
C20_Witness ==
  \E p \in Procs :
    /\ OnReuseBranch(p) /\ pc[p] = "done"
    /\ Len(existing_services[p]) = 2
    /\ existing_services[p][1].state = "Stopped"
    /\ existing_services[p][2].state = "Stopped"
    /\ result[p].status = "ok"
    /\ result[p].service.uuid = existing_services[p][1].uuid
    /\ registry[request[p].identity] =
         <<[existing_services[p][1] EXCEPT !.state = "Running"],
           existing_services[p][2]>>

\* the storage operation the execution of p made last has failed
LocateFailed(log) == log # <<>> /\ ~log[Len(log)].ok

\* C21: when preparing the model files fails, the step that fails ends the
\* execution with the error (ArtifactMissing, NotFoundError or
\* StagingIOError) and without a service, no backend call has been made, and
\* the services of every identity are as they were before the step; no
\* later step of the execution makes a backend call.
C21_LocateFailureLeavesServices ==
  [][\A p \in Procs :
       /\ (ops'[p] # ops[p] /\ LocateFailed(ops'[p])) =>
            /\ pc'[p] = "done"
            /\ result'[p].status \in {"ArtifactMissing", "NotFoundError", "StagingIOError"}
            /\ result'[p].service = NoService
            /\ calls'[p] = <<>>
            /\ registry' = registry
       /\ LocateFailed(ops[p]) => (calls'[p] = <<>> /\ pc'[p] \in {"done", "idle"})]_vars

\* a positive decision was about to replace a Running service, preparing the
\* model files has failed and the service is Running as before
C21_Witness ==
  \E p \in Procs :
    /\ pc[p] = "done" /\ request[p].deploy_decision
    /\ LocateFailed(ops[p]) /\ calls[p] = <<>>
    /\ result[p].status \in {"ArtifactMissing", "NotFoundError", "StagingIOError"}
    /\ existing_services[p] # <<>>
    /\ existing_services[p][1].state = "Running"
    /\ registry[request[p].identity] = existing_services[p]

\* C22: an execution deals with the services of its own identity only.  Its
\* lookup returns services of that identity and changes nothing; each of its
\* later steps leaves the services of every other identity as they were, and
\* every backend call it makes is for its own identity.
C22_OtherIdentitiesUntouched ==
  [][\A p \in Procs :
       /\ (pc[p] = "idle" /\ pc'[p] = "found") =>
            /\ registry' = registry
            /\ \A k \in 1..Len(existing_services'[p]) :
                 existing_services'[p][k].config.identity = request'[p].identity
       /\ (pc[p] \in {"found", "staged"} /\ pc'[p] # pc[p]) =>
            /\ \A id \in DOMAIN registry :
                 id # request[p].identity => registry'[id] = registry[id]
            /\ \A i \in 1..Len(calls'[p]) :
                 calls'[p][i].config.identity = request[p].identity]_vars

\* an execution has deployed a service for its identity while the Stopped
\* service of an identity with another model name is as it was
C22_Witness ==
  \E p \in Procs : \E id \in DOMAIN registry :
    /\ pc[p] = "done" /\ result[p].status = "ok" /\ DeployCalls(p) = {1}
    /\ id # request[p].identity
    /\ id.pipeline_name = request[p].identity.pipeline_name
    /\ id.pipeline_step_name = request[p].identity.pipeline_step_name
    /\ registry[id] # <<>> /\ registry[id][1].state = "Stopped"

\* C23: a method of a registered filesystem that is one of open, copy,
\* listdir, mkdir, remove, rename, rmtree, stat and walk raises NotFoundError
\* when the store's method raises FileNotFoundError, and otherwise gives
\* what the store's method gives, value or exception; exists, glob, isdir
\* and makedirs always give what the store's method gives.  Every registered
\* filesystem has exactly these thirteen methods.
C23_NotFoundTranslation ==
  /\ \A k \in 1..Len(filesystems) :
       DOMAIN filesystems[k].methods =
         {"open", "copy", "listdir", "mkdir", "remove", "rename", "rmtree", "stat",
          "walk", "exists", "glob", "isdir", "makedirs"}
  /\ fscall # NoCall =>
       IF /\ fscall.method \in {"open", "copy", "listdir", "mkdir", "remove",
                                "rename", "rmtree", "stat", "walk"}
          /\ fscall.raw = Raises("FileNotFoundError")
       THEN fscall.outcome = Raises("NotFoundError")
       ELSE fscall.outcome = fscall.raw

\* the copy of a registered filesystem was called, the store's copyfile
\* raised FileNotFoundError and the caller got NotFoundError
C23_Witness ==
  /\ fscall.filesystem \in 1..Len(filesystems)
  /\ fscall.method = "copy"
  /\ filesystems[fscall.filesystem].methods["copy"].of = "copyfile"
  /\ fscall.raw = Raises("FileNotFoundError")
  /\ fscall.outcome = Raises("NotFoundError")

\* C24: the construction of an artifact store raises
\* ArtifactStoreInterfaceError exactly when its class has no SUPPORTED_SCHEMES
\* or its path starts with none of them, and then the registered filesystems
\* are as before; every other construction registers one more filesystem,
\* which has the SUPPORTED_SCHEMES of the store's class and priority 5.
C24_ConstructionRegistersOnce ==
  [][(construction' # construction \/ filesystems' # filesystems) =>
       LET cls == StoreClasses[construction'.cls]
           supported ==
             /\ cls.has_schemes
             /\ \E i \in cls.SUPPORTED_SCHEMES :
                  /\ Len(i) <= Len(construction'.path)
                  /\ \A n \in 1..Len(i) : construction'.path[n] = i[n]
       IN  IF supported
           THEN /\ construction'.outcome.kind = "return"
                /\ Len(filesystems') = Len(filesystems) + 1
                /\ SubSeq(filesystems', 1, Len(filesystems)) = filesystems
                /\ filesystems'[Len(filesystems')].SUPPORTED_SCHEMES
                     = cls.SUPPORTED_SCHEMES
                /\ filesystems'[Len(filesystems')].priority = 5
           ELSE /\ construction'.outcome = Raises("ArtifactStoreInterfaceError")
                /\ filesystems' = filesystems]_vars

\* a construction has failed for a path with the wrong scheme after one that
\* succeeded, and the one filesystem of the first is all that is registered
C24_Witness ==
  /\ construction.outcome = Raises("ArtifactStoreInterfaceError")
  /\ StoreClasses[construction.cls].has_schemes
  /\ Len(filesystems) = 1
  /\ filesystems[1].priority = 5
  /\ filesystems[1].SUPPORTED_SCHEMES = StoreClasses[filesystems[1].name].SUPPORTED_SCHEMES

====
